---- MODULE Spec2Model ----
(***************************************************************************)
(* State-machine model of the SplitPayment ink! contract                   *)
(* (src/split_payment/lib.rs): role registry, pause gate, beneficiary      *)
(* ledger, distribution engine, approvals and withdrawals.                 *)
(*                                                                         *)
(* One action per contract message.  A message is modelled as the Rust     *)
(* method body: a returned Err does not undo assignments made before it.   *)
(***************************************************************************)
EXTENDS Integers, Sequences, FiniteSets, TLC

(***************************************************************************)
(* Bounds of the model.                                                    *)
(***************************************************************************)
\* Largest block timestamp explored.
MaxTime == 1
\* Stand-in for Balance::MAX (u128::MAX in the contract): the clamp of every
\* saturating Balance operation.
BalanceMax == 255

(***************************************************************************)
(* Program constants.                                                      *)
(***************************************************************************)
\* AccountId::from([0u8; 32])
ZeroAccount == 0
\* u8::MAX, the clamp of the saturating u8 operations on total_shares.
U8Max == 255
\* The percentage base: shares are out of 100.
MaxShare == 100

\* Option<u64>: None is <<>>, Some(t) is <<t>>.
NoExpiry == << >>

VARIABLES
    owner,              \* AccountId
    managers,           \* Mapping<AccountId, bool>
    beneficiaries,      \* Vec<Beneficiary>
    total_shares,       \* u8
    approvals,          \* Mapping<(AccountId, AccountId), Approval>
    allowances,         \* Mapping<AccountId, Balance> (never written)
    paused,             \* bool
    total_received,     \* Balance
    total_distributed,  \* Balance
    now,                \* env().block_timestamp()
    balance,            \* env().balance(): the contract's pooled balance
    op,                 \* the last message called
    result,             \* what the last message returned
    transfer,           \* the env().transfer the last message requested, if any
    scope,              \* which bounded set of inputs this behaviour explores
    outlived            \* approval keys whose granting beneficiary has been removed
                        \* since the approval was last written by approve

storage == <<owner, managers, beneficiaries, total_shares, approvals, allowances,
             paused, total_received, total_distributed>>
vars == <<owner, managers, beneficiaries, total_shares, approvals, allowances,
          paused, total_received, total_distributed, now, balance, op, result, transfer, scope,
          outlived>>

(***************************************************************************)
(* Explored inputs.  A behaviour explores one scope, fixed at construction:*)
(*   "roles":  the role registry and the pause gate over three callers,    *)
(*             with a ledger of at most one beneficiary and no funds;      *)
(*   "ledger": ledger membership over three accounts, called by the owner  *)
(*             and one other account that the owner may make a manager;    *)
(*   "funds":  payments, approvals, withdrawals, expiry and the pause gate *)
(*             over two accounts, with the role registry left as built and *)
(*             at most one approval record stored at a time;               *)
(*   "grants": several approval records stored side by side, without      *)
(*             expiry, over two beneficiaries of one payment, across the   *)
(*             removal and re-adding of a beneficiary and a hand-over of   *)
(*             ownership;                                                  *)
(*   "totals": repeated large payments to one beneficiary, up to the       *)
(*             saturation of the reporting totals.                         *)
(* Every message is explored in at least one scope with inputs on both     *)
(* sides of each of its checks.                                            *)
(***************************************************************************)
Scopes == {"roles", "ledger", "funds", "grants", "totals"}
\* The account that constructs the contract.  Account identities are
\* interchangeable, and transfer_ownership reaches the other owners.
Deployers == {1}
Callers == IF scope = "roles" THEN {1, 2, 3} ELSE {1, 2}
Accounts ==
    CASE scope = "roles" -> {ZeroAccount, 2}
      [] scope = "ledger" -> {ZeroAccount, 1, 2, 3}
      [] scope = "funds" -> {ZeroAccount, 1, 2}
      [] scope = "grants" -> {1, 2}
      [] scope = "totals" -> {1}
ManagerInputs ==
    CASE scope = "roles" -> Callers
      [] scope = "ledger" -> {2}
      [] OTHER -> {}
OwnerInputs ==
    CASE scope = "roles" -> Callers
      [] scope = "grants" -> {2}
      [] OTHER -> {}
ShareInputs ==
    CASE scope = "roles" -> {50, U8Max}
      [] scope = "ledger" -> {0, 25, 50, U8Max}
      [] scope = "funds" -> {50, 100}
      [] scope = "grants" -> {50}
      [] scope = "totals" -> {100}
PaymentInputs ==
    CASE scope = "funds" -> {0, 3}
      [] scope = "grants" -> {3}
      [] scope = "totals" -> {0, 200}
      [] OTHER -> {}
SpenderInputs ==
    CASE scope = "funds" -> Callers
      [] scope = "grants" -> {2}
      [] OTHER -> {}
ApproveInputs == IF scope = "grants" THEN {2} ELSE {0, 2}
ExpiryInputs ==
    IF scope = "grants" THEN {NoExpiry}
    ELSE {NoExpiry} \cup {<<t>> : t \in 0..(MaxTime - 1)}
WithdrawInputs ==
    CASE scope = "funds" -> {1, 2}
      [] scope = "grants" -> {1}
      [] OTHER -> {}

(***************************************************************************)
(* Helpers: arithmetic, Mapping, Vec.                                      *)
(***************************************************************************)
Min(a, b) == IF a < b THEN a ELSE b

\* Balance::saturating_add
saturating_add(a, b) == Min(a + b, BalanceMax)
\* Balance::saturating_sub
saturating_sub(a, b) == IF a < b THEN 0 ELSE a - b
\* Balance::saturating_mul
saturating_mul(a, b) == Min(a * b, BalanceMax)
\* Balance::saturating_div
saturating_div(a, b) == a \div b
\* u8::saturating_add
u8_saturating_add(a, b) == Min(a + b, U8Max)
\* u8::saturating_sub
u8_saturating_sub(a, b) == IF a < b THEN 0 ELSE a - b

\* Mapping::get(k).is_some()
MapHas(m, k) == k \in DOMAIN m
\* Mapping::insert(k, v)
MapInsert(m, k, v) == [x \in DOMAIN m \cup {k} |-> IF x = k THEN v ELSE m[x]]
\* Mapping::remove(k)
MapRemove(m, k) == [x \in DOMAIN m \ {k} |-> m[x]]
EmptyMap == << >>

\* Vec::swap_remove(position): the last element takes the removed one's place.
VecSwapRemove(v, p) == [i \in 1..(Len(v) - 1) |-> IF i = p THEN v[Len(v)] ELSE v[i]]

\* Vec::remove(position)
VecRemove(v, p) == [i \in 1..(Len(v) - 1) |-> IF i < p THEN v[i] ELSE v[i + 1]]

\* The membership test looking at the first record only.
is_beneficiary_first(account) ==
    beneficiaries # << >> /\ beneficiaries[1].account = account

\* iter().any(|b| b.account == account)
is_beneficiary(account) == \E i \in DOMAIN beneficiaries : beneficiaries[i].account = account
\* iter().position(|b| b.account == account), when there is one
position(account) ==
    CHOOSE i \in DOMAIN beneficiaries :
        /\ beneficiaries[i].account = account
        /\ \A j \in DOMAIN beneficiaries : beneficiaries[j].account = account => i <= j

NoTransfer == << >>
\* env().transfer(to, amount): the host moves the value or signals failure; it
\* cannot move more than the pooled balance.
TransferOutcomes(amount) == IF amount <= balance THEN {TRUE, FALSE} ELSE {FALSE}

(***************************************************************************)
(* Private helper functions of the contract.                               *)
(***************************************************************************)
\* The owner check letting managers through as well.
ensure_owner_or_manager(caller) ==
    caller = owner \/ (caller \in DOMAIN managers /\ managers[caller])

ensure_owner(caller) == caller = owner

is_manager(account) == IF MapHas(managers, account) THEN managers[account] ELSE FALSE

\* The ledger-management check that looks at the manager flag alone.
ensure_manager_only(caller) == is_manager(caller)

ensure_manager_or_owner(caller) == caller = owner \/ is_manager(caller)

ensure_not_paused == ~paused

\* The share that credits every beneficiary the whole amount.
share_amount_whole(amount, share_percentage) == amount

\* The share computed by dividing before multiplying.
share_amount_divide_first(amount, share_percentage) ==
    saturating_mul(saturating_div(amount, MaxShare), share_percentage)

\* amount.saturating_mul(share_percentage as Balance).saturating_div(100)
share_amount(amount, share_percentage) ==
    saturating_div(saturating_mul(amount, share_percentage), MaxShare)

\* The loop stopping one record short of the end of the ledger.
credit_all_skip_last(bens, amount) ==
    [i \in DOMAIN bens |->
        IF i = Len(bens) THEN bens[i]
        ELSE [bens[i] EXCEPT !.pending_balance =
                 saturating_add(@, share_amount(amount, bens[i].share_percentage))]]

\* The loop of distribute_funds over &mut self.beneficiaries.
credit_all(bens, amount) ==
    [i \in DOMAIN bens |->
        [bens[i] EXCEPT !.pending_balance =
            saturating_add(@, share_amount(amount, bens[i].share_percentage))]]

get_approval(o, spender) ==
    IF MapHas(approvals, <<o, spender>>) THEN approvals[<<o, spender>>].amount ELSE 0

get_owner == owner

get_total_shares == total_shares

\* The expiry test with >= in place of >.
is_expired_inclusive(approval) ==
    approval.expires_at # NoExpiry /\ now >= approval.expires_at[1]

\* if let Some(expires_at) = approval.expires_at { current_time > expires_at }
is_expired(approval) == approval.expires_at # NoExpiry /\ now > approval.expires_at[1]

(***************************************************************************)
(* Initial state: SplitPayment::new() called by some account.              *)
(***************************************************************************)
Init ==
    /\ scope \in Scopes
    /\ owner \in Deployers
    /\ managers = EmptyMap
    /\ beneficiaries = << >>
    /\ total_shares = 0
    /\ approvals = EmptyMap
    /\ allowances = EmptyMap
    /\ paused = FALSE
    /\ total_received = 0
    /\ total_distributed = 0
    /\ now = 0
    /\ balance = 0
    /\ op = "new"
    /\ result = "Constructed"
    /\ transfer = NoTransfer
    /\ outlived = {}

\* A message that returns r without having written to storage or the host.
Return(r) ==
    /\ result' = r
    /\ transfer' = NoTransfer
    /\ UNCHANGED <<storage, now, balance, scope>>

(***************************************************************************)
(* Messages.  Each takes the caller (env().caller()) and its arguments.    *)
(***************************************************************************)
\* The distribution counting amount as distributed on an empty ledger too.
distribute_funds_counts_always(amount) ==
    /\ beneficiaries' = credit_all(beneficiaries, amount)
    /\ total_distributed' = saturating_add(total_distributed, amount)

\* The body of distribute_funds: the new beneficiaries and total_distributed.
distribute_funds(amount) ==
    IF beneficiaries = << >> \/ total_shares = 0
    THEN UNCHANGED <<beneficiaries, total_distributed>>
    ELSE /\ beneficiaries' = credit_all(beneficiaries, amount)
         /\ total_distributed' = saturating_add(total_distributed, amount)

\* amount is env().transferred_value(); it joins the pooled balance when the
\* message succeeds.
receive_payment(caller, amount) ==
    IF ~ensure_not_paused THEN Return("ContractPaused")
    ELSE /\ total_received' = saturating_add(total_received, amount)
         /\ distribute_funds(amount)
         /\ balance' = balance + amount
         /\ result' = "Ok"
         /\ transfer' = NoTransfer
         /\ UNCHANGED <<owner, managers, total_shares, approvals, allowances, paused, now, scope>>

\* The share check with a wrapping u8 addition in place of the saturating one.
share_rejected_wrapping(share_percentage) ==
    share_percentage = 0 \/ (total_shares + share_percentage) % (U8Max + 1) > MaxShare

\* share_percentage == 0 || self.total_shares.saturating_add(share_percentage) > 100
share_rejected(share_percentage) ==
    share_percentage = 0 \/ u8_saturating_add(total_shares, share_percentage) > MaxShare

new_beneficiary(account, share_percentage) ==
    [account |-> account, share_percentage |-> share_percentage,
     pending_balance |-> 0, total_withdrawn |-> 0]

add_beneficiary(caller, account, share_percentage) ==
    IF ~ensure_not_paused THEN Return("ContractPaused")
    ELSE IF ~ensure_manager_or_owner(caller) THEN Return("Unauthorized")
    ELSE IF account = ZeroAccount THEN Return("InvalidBeneficiary")
    ELSE IF share_rejected(share_percentage) THEN Return("InvalidShare")
    ELSE IF is_beneficiary(account) THEN Return("InvalidBeneficiary")
    ELSE /\ beneficiaries' = Append(beneficiaries, new_beneficiary(account, share_percentage))
         /\ total_shares' = u8_saturating_add(total_shares, share_percentage)
         /\ result' = "Ok"
         /\ transfer' = NoTransfer
         /\ UNCHANGED <<owner, managers, approvals, allowances, paused,
                        total_received, total_distributed, now, balance, scope>>

\* The transfer whose failure still takes the value out of the pooled balance.
request_transfer_takes_anyway(to, amount, ok) ==
    /\ transfer' = <<[to |-> to, amount |-> amount, ok |-> ok]>>
    /\ balance' = balance - amount
    /\ result' = IF ok THEN "Ok" ELSE "TransferFailed"

\* A requested env().transfer(to, amount) with outcome ok, and the result of a
\* message whose last fallible step it is.
request_transfer(to, amount, ok) ==
    /\ transfer' = <<[to |-> to, amount |-> amount, ok |-> ok]>>
    /\ balance' = IF ok THEN balance - amount ELSE balance
    /\ result' = IF ok THEN "Ok" ELSE "TransferFailed"

remove_beneficiary(caller, account) ==
    IF ~ensure_not_paused THEN Return("ContractPaused")
    ELSE IF ~ensure_manager_or_owner(caller) THEN Return("Unauthorized")
    ELSE IF ~is_beneficiary(account) THEN Return("BeneficiaryNotFound")
    ELSE LET p == position(account)
             beneficiary == beneficiaries[p]
         IN /\ beneficiaries' = VecRemove(beneficiaries, p)
            /\ total_shares' = u8_saturating_sub(total_shares, beneficiary.share_percentage)
            /\ IF beneficiary.pending_balance > 0
               THEN \E ok \in TransferOutcomes(beneficiary.pending_balance) :
                        request_transfer(account, beneficiary.pending_balance, ok)
               ELSE /\ result' = "Ok"
                    /\ transfer' = NoTransfer
                    /\ UNCHANGED balance
            /\ UNCHANGED <<owner, managers, approvals, allowances, paused,
                           total_received, total_distributed, now, scope>>

new_approval(spender, amount, expires_at) ==
    [spender |-> spender, amount |-> amount, expires_at |-> expires_at]

\* The grant adding its amount to the allowance already stored.
approve_additive(caller, spender, amount, expires_at) ==
    IF ~ensure_not_paused THEN Return("ContractPaused")
    ELSE IF ~is_beneficiary(caller) THEN Return("Unauthorized")
    ELSE /\ approvals' = MapInsert(approvals, <<caller, spender>>,
                             new_approval(spender,
                                          saturating_add(get_approval(caller, spender), amount),
                                          expires_at))
         /\ result' = "Ok"
         /\ transfer' = NoTransfer
         /\ UNCHANGED <<owner, managers, beneficiaries, total_shares, allowances, paused,
                        total_received, total_distributed, now, balance, scope>>

approve(caller, spender, amount, expires_at) ==
    IF ~ensure_not_paused THEN Return("ContractPaused")
    ELSE IF ~is_beneficiary(caller) THEN Return("Unauthorized")
    ELSE /\ approvals' = MapInsert(approvals, <<caller, spender>>,
                                   new_approval(spender, amount, expires_at))
         /\ result' = "Ok"
         /\ transfer' = NoTransfer
         /\ UNCHANGED <<owner, managers, beneficiaries, total_shares, allowances, paused,
                        total_received, total_distributed, now, balance, scope>>

\* The revocation refusing when there is no record to remove.
revoke_approval_strict(caller, spender) ==
    IF ~MapHas(approvals, <<caller, spender>>) THEN Return("InsufficientAllowance")
    ELSE /\ approvals' = MapRemove(approvals, <<caller, spender>>)
         /\ result' = "Ok"
         /\ transfer' = NoTransfer
         /\ UNCHANGED <<owner, managers, beneficiaries, total_shares, allowances, paused,
                        total_received, total_distributed, now, balance, scope>>

revoke_approval(caller, spender) ==
    /\ approvals' = MapRemove(approvals, <<caller, spender>>)
    /\ result' = "Ok"
    /\ transfer' = NoTransfer
    /\ UNCHANGED <<owner, managers, beneficiaries, total_shares, allowances, paused,
                   total_received, total_distributed, now, balance, scope>>

\* The debit both withdrawal paths apply to beneficiaries[i].
debit(i, amount) ==
    [beneficiaries EXCEPT ![i].pending_balance = saturating_sub(@, amount),
                          ![i].total_withdrawn = saturating_add(@, amount)]

\* The allowance update left out: the record is stored back as it was read.
updated_approval_stale(approval, amount) == approval

\* updated_approval.amount = updated_approval.amount.saturating_sub(amount)
updated_approval(approval, amount) ==
    [approval EXCEPT !.amount = saturating_sub(@, amount)]

\* The approvals map after a delegated withdrawal of amount under key.
consume_approval(key, amount) ==
    LET updated == updated_approval(approvals[key], amount)
    IN IF updated.amount = 0 THEN MapRemove(approvals, key)
       ELSE MapInsert(approvals, key, updated)

\* The delegated withdrawal paying the beneficiary instead of the spender.
withdraw_from_pays_beneficiary(caller, beneficiary, amount) ==
    IF ~ensure_not_paused THEN Return("ContractPaused")
    ELSE IF ~MapHas(approvals, <<beneficiary, caller>>) THEN Return("InsufficientAllowance")
    ELSE IF is_expired(approvals[<<beneficiary, caller>>]) THEN Return("InsufficientAllowance")
    ELSE IF approvals[<<beneficiary, caller>>].amount < amount THEN Return("InsufficientAllowance")
    ELSE IF ~is_beneficiary(beneficiary) THEN Return("BeneficiaryNotFound")
    ELSE IF beneficiaries[position(beneficiary)].pending_balance < amount
         THEN Return("InsufficientBalance")
    ELSE /\ beneficiaries' = debit(position(beneficiary), amount)
         /\ approvals' = consume_approval(<<beneficiary, caller>>, amount)
         /\ \E ok \in TransferOutcomes(amount) : request_transfer(beneficiary, amount, ok)
         /\ UNCHANGED <<owner, managers, total_shares, allowances, paused,
                        total_received, total_distributed, now, scope>>

withdraw_from(caller, beneficiary, amount) ==
    IF ~ensure_not_paused THEN Return("ContractPaused")
    ELSE IF ~MapHas(approvals, <<beneficiary, caller>>) THEN Return("InsufficientAllowance")
    ELSE IF is_expired(approvals[<<beneficiary, caller>>]) THEN Return("InsufficientAllowance")
    ELSE IF approvals[<<beneficiary, caller>>].amount < amount THEN Return("InsufficientAllowance")
    ELSE IF ~is_beneficiary(beneficiary) THEN Return("BeneficiaryNotFound")
    ELSE IF beneficiaries[position(beneficiary)].pending_balance < amount
         THEN Return("InsufficientBalance")
    ELSE /\ beneficiaries' = debit(position(beneficiary), amount)
         /\ approvals' = consume_approval(<<beneficiary, caller>>, amount)
         /\ \E ok \in TransferOutcomes(amount) : request_transfer(caller, amount, ok)
         /\ UNCHANGED <<owner, managers, total_shares, allowances, paused,
                        total_received, total_distributed, now, scope>>

\* The self-withdrawal without the balance check.
withdraw_unchecked(caller, amount) ==
    IF ~ensure_not_paused THEN Return("ContractPaused")
    ELSE IF ~is_beneficiary(caller) THEN Return("Unauthorized")
    ELSE /\ beneficiaries' = debit(position(caller), amount)
         /\ \E ok \in TransferOutcomes(amount) : request_transfer(caller, amount, ok)
         /\ UNCHANGED <<owner, managers, total_shares, approvals, allowances, paused,
                        total_received, total_distributed, now, scope>>

withdraw(caller, amount) ==
    IF ~ensure_not_paused THEN Return("ContractPaused")
    ELSE IF ~is_beneficiary(caller) THEN Return("Unauthorized")
    ELSE IF beneficiaries[position(caller)].pending_balance < amount
         THEN Return("InsufficientBalance")
    ELSE /\ beneficiaries' = debit(position(caller), amount)
         /\ \E ok \in TransferOutcomes(amount) : request_transfer(caller, amount, ok)
         /\ UNCHANGED <<owner, managers, total_shares, approvals, allowances, paused,
                        total_received, total_distributed, now, scope>>

\* What an admin message does once ensure_owner has passed.
AdminOk ==
    /\ result' = "Ok"
    /\ transfer' = NoTransfer
    /\ UNCHANGED <<beneficiaries, total_shares, approvals, allowances,
                   total_received, total_distributed, now, balance, scope>>

add_manager(caller, manager) ==
    IF ~ensure_owner(caller) THEN Return("Unauthorized")
    ELSE /\ managers' = MapInsert(managers, manager, TRUE)
         /\ AdminOk
         /\ UNCHANGED <<owner, paused>>

remove_manager(caller, manager) ==
    IF ~ensure_owner(caller) THEN Return("Unauthorized")
    ELSE /\ managers' = MapRemove(managers, manager)
         /\ AdminOk
         /\ UNCHANGED <<owner, paused>>

pause(caller) ==
    IF ~ensure_owner(caller) THEN Return("Unauthorized")
    ELSE /\ paused' = TRUE
         /\ AdminOk
         /\ UNCHANGED <<owner, managers>>

\* The unpause that reports success and leaves the flag as it was.
unpause_keeps_flag(caller) ==
    IF ~ensure_owner(caller) THEN Return("Unauthorized")
    ELSE /\ paused' = paused
         /\ AdminOk
         /\ UNCHANGED <<owner, managers>>

unpause(caller) ==
    IF ~ensure_owner(caller) THEN Return("Unauthorized")
    ELSE /\ paused' = FALSE
         /\ AdminOk
         /\ UNCHANGED <<owner, managers>>

\* The hand-over that leaves the former owner a manager flag.
transfer_ownership_flags_former(caller, new_owner) ==
    IF ~ensure_owner(caller) THEN Return("Unauthorized")
    ELSE /\ owner' = new_owner
         /\ managers' = MapInsert(managers, caller, TRUE)
         /\ AdminOk
         /\ UNCHANGED paused

transfer_ownership(caller, new_owner) ==
    IF ~ensure_owner(caller) THEN Return("Unauthorized")
    ELSE /\ owner' = new_owner
         /\ AdminOk
         /\ UNCHANGED <<managers, paused>>

\* The host produces a block: block_timestamp advances.
advance_time ==
    /\ now' = now + 1
    /\ UNCHANGED <<storage, balance, op, result, transfer, scope>>

(***************************************************************************)
(* Next-state relation.  The caps keep the explored state space finite.    *)
(***************************************************************************)
\* Payments are explored until the first non-zero payment has arrived; in the
\* "totals" scope, until total_received has saturated.
PaymentExplored ==
    IF scope = "totals" THEN total_received < BalanceMax ELSE total_received = 0
\* A grant is explored while no other approval record is stored; in the
\* "grants" scope, always.
ApproveExplored(caller, spender) ==
    scope = "grants" \/ DOMAIN approvals \subseteq {<<caller, spender>>}
TimeExplored == scope = "funds" /\ now < MaxTime

\* The approval records a step leaves stored although the beneficiary that
\* granted them leaves the ledger in that step (remove_beneficiary writes only
\* beneficiaries and total_shares).
Outliving ==
    {key \in DOMAIN approvals : is_beneficiary(key[1]) /\ ~is_beneficiary(key[1])'}
\* The history is recorded in the "grants" scope, where a beneficiary that has
\* granted an approval is removed and added again.
HistoryExplored == scope = "grants"
\* History of the approvals map: a key stays recorded from the removal of its
\* granting beneficiary until approve writes the record again (renewed) or the
\* record leaves the map.
Outlived(renewed) ==
    outlived' = IF HistoryExplored
                THEN ((outlived \cup Outliving) \ renewed) \cap DOMAIN approvals'
                ELSE outlived

Next ==
    \/ \E c \in Callers, amount \in PaymentInputs :
           /\ PaymentExplored /\ op' = "receive_payment" /\ receive_payment(c, amount)
           /\ Outlived({})
    \/ \E c \in Callers, account \in Accounts, share \in ShareInputs :
           op' = "add_beneficiary" /\ add_beneficiary(c, account, share) /\ Outlived({})
    \/ \E c \in Callers, account \in Accounts :
           op' = "remove_beneficiary" /\ remove_beneficiary(c, account) /\ Outlived({})
    \/ \E c \in Callers, spender \in SpenderInputs, amount \in ApproveInputs,
          e \in ExpiryInputs :
           /\ ApproveExplored(c, spender) /\ op' = "approve" /\ approve(c, spender, amount, e)
           /\ Outlived(IF result' = "Ok" THEN {<<c, spender>>} ELSE {})
    \/ \E c \in Callers, spender \in SpenderInputs :
           op' = "revoke_approval" /\ revoke_approval(c, spender) /\ Outlived({})
    \/ \E c \in Callers, b \in Accounts, amount \in WithdrawInputs :
           op' = "withdraw_from" /\ withdraw_from(c, b, amount) /\ Outlived({})
    \/ \E c \in Callers, amount \in WithdrawInputs :
           op' = "withdraw" /\ withdraw(c, amount) /\ Outlived({})
    \/ \E c \in Callers, m \in ManagerInputs :
           op' = "add_manager" /\ add_manager(c, m) /\ Outlived({})
    \/ \E c \in Callers, m \in ManagerInputs :
           op' = "remove_manager" /\ remove_manager(c, m) /\ Outlived({})
    \/ \E c \in Callers : op' = "pause" /\ pause(c) /\ Outlived({})
    \/ \E c \in Callers : op' = "unpause" /\ unpause(c) /\ Outlived({})
    \/ \E c \in Callers, n \in OwnerInputs :
           op' = "transfer_ownership" /\ transfer_ownership(c, n) /\ Outlived({})
    \/ TimeExplored /\ advance_time /\ Outlived({})

Spec == Init /\ [][Next]_vars

(***************************************************************************)
(* Properties.                                                             *)
(***************************************************************************)
RECURSIVE SumShares(_)
SumShares(bens) ==
    IF bens = << >> THEN 0 ELSE bens[1].share_percentage + SumShares(Tail(bens))

\* A message returned without writing to storage or moving value.
NoEffect == UNCHANGED <<storage, balance>> /\ transfer' = NoTransfer

\* C1: in every reachable state the share_percentage values of the ledger's
\* records sum to at most 100, and get_total_shares reports exactly that sum.
C1_ShareInvariant ==
    /\ SumShares(beneficiaries) <= 100
    /\ get_total_shares = SumShares(beneficiaries)

\* A full ledger of two records on which a further add_beneficiary was refused.
C1_Witness ==
    /\ op = "add_beneficiary"
    /\ Len(beneficiaries) >= 2
    /\ SumShares(beneficiaries) = 100
    /\ result = "InvalidShare"

\* C2: while the contract is paused, each of receive_payment, add_beneficiary,
\* remove_beneficiary, approve, revoke_approval, withdraw and withdraw_from
\* returns ContractPaused for every caller and argument and changes no state.
C2_PauseBlocksEveryMutation ==
    [][(/\ paused
        /\ op' \in {"receive_payment", "add_beneficiary", "remove_beneficiary", "approve",
                    "revoke_approval", "withdraw_from", "withdraw"}
        /\ \E c \in Callers :
               \/ \E amount \in PaymentInputs : receive_payment(c, amount)
               \/ \E account \in Accounts, share \in ShareInputs :
                      add_beneficiary(c, account, share)
               \/ \E account \in Accounts : remove_beneficiary(c, account)
               \/ \E spender \in SpenderInputs, amount \in ApproveInputs,
                     e \in ExpiryInputs : approve(c, spender, amount, e)
               \/ \E spender \in SpenderInputs : revoke_approval(c, spender)
               \/ \E b \in Accounts, amount \in WithdrawInputs : withdraw_from(c, b, amount)
               \/ \E amount \in WithdrawInputs : withdraw(c, amount))
       => (result' = "ContractPaused" /\ NoEffect)
    ]_vars

\* C3: a withdraw_from that succeeds found an allowance of at least the amount
\* and leaves exactly that allowance minus the amount, with the record absent
\* when nothing remains and otherwise stored with its spender and expiry kept;
\* a withdraw_from asking for more than the stored allowance is refused with
\* InsufficientAllowance (ContractPaused on a paused contract, whose gate
\* answers first) and changes nothing.  By induction the successful
\* withdrawals against one approval total at most the approved amount.
C3_AllowanceConsumption ==
    [][op' = "withdraw_from" =>
        \A c \in Callers, b \in Accounts, amount \in WithdrawInputs :
            LET key == <<b, c>>
                had == key \in DOMAIN approvals
                has == key \in DOMAIN approvals'
            IN /\ (result' = "Ok" /\ withdraw_from(c, b, amount)) =>
                    /\ had
                    /\ amount <= approvals[key].amount
                    /\ has <=> approvals[key].amount - amount > 0
                    /\ has => approvals'[key] =
                                [approvals[key] EXCEPT !.amount = @ - amount]
               /\ (had /\ amount > approvals[key].amount /\ withdraw_from(c, b, amount)) =>
                    /\ result' = IF paused THEN "ContractPaused"
                                 ELSE "InsufficientAllowance"
                    /\ NoEffect
    ]_vars

\* A delegated withdrawal of 1 has just been paid out of an allowance of 2: the
\* record is still stored, with 1 remaining.
C3_Witness ==
    /\ op = "withdraw_from"
    /\ result = "Ok"
    /\ transfer # NoTransfer
    /\ \E key \in DOMAIN approvals :
           /\ approvals[key].amount = 1
           /\ transfer[1].to = key[2]
           /\ transfer[1].amount = 1

\* Payment amounts at which the distribution arithmetic is evaluated.
DistributionAmounts == 0..12 \cup {BalanceMax}

RECURSIVE Credited(_, _)
\* What distribute_funds credits in total when it splits amount over bens.
Credited(bens, amount) ==
    IF bens = << >> THEN 0
    ELSE share_amount(amount, bens[1].share_percentage) + Credited(Tail(bens), amount)

RECURSIVE SumPending(_)
SumPending(bens) ==
    IF bens = << >> THEN 0 ELSE bens[1].pending_balance + SumPending(Tail(bens))

ExactShare(amount, share) == (amount * share) \div 100
ClampedShare(amount, share) ==
    IF amount * share <= BalanceMax THEN ExactShare(amount, share) ELSE BalanceMax \div 100

\* Every successful receive_payment on a non-empty ledger keeps each record's
\* account, share_percentage and total_withdrawn and adds to its
\* pending_balance (clamped) the exact share, or else the clamped share; and
\* that share is what the distribution computes for the ledger's records at
\* every amount of DistributionAmounts.
PaymentCredits(exact) ==
    (op' = "receive_payment" /\ result' = "Ok" /\ beneficiaries # << >>) =>
        /\ \A c \in Callers, amount \in PaymentInputs :
               receive_payment(c, amount) =>
                   /\ Len(beneficiaries') = Len(beneficiaries)
                   /\ \A i \in DOMAIN beneficiaries :
                          LET share == beneficiaries[i].share_percentage
                              increment == IF exact THEN ExactShare(amount, share)
                                           ELSE ClampedShare(amount, share)
                          IN beneficiaries'[i] =
                                 [beneficiaries[i] EXCEPT !.pending_balance =
                                     Min(@ + increment, BalanceMax)]
        /\ \A amount \in DistributionAmounts, i \in DOMAIN beneficiaries :
               LET share == beneficiaries[i].share_percentage
               IN share_amount(amount, share) =
                      IF exact THEN ExactShare(amount, share)
                      ELSE ClampedShare(amount, share)

\* C4 as claimed: on a non-empty ledger a successful receive_payment adds
\* exactly floor(amount * share_percentage / 100) to every pending_balance
\* (the sum clamped at the maximum balance) and changes no share_percentage
\* or total_withdrawn.
C4_ExactShareCredited == [][PaymentCredits(TRUE)]_vars

\* C4 as amended: the amount added is floor(amount * share_percentage / 100)
\* when amount * share_percentage does not exceed the maximum balance, and
\* floor(maximum balance / 100) when it does.
C4_ClampedShareCredited == [][PaymentCredits(FALSE)]_vars

\* A payment of 3 has just been split over two records of 50 each: 1 apiece.
C4_Witness ==
    /\ op = "receive_payment"
    /\ result = "Ok"
    /\ total_received = 3
    /\ Len(beneficiaries) = 2
    /\ \A i \in DOMAIN beneficiaries :
           /\ beneficiaries[i].share_percentage = 50
           /\ beneficiaries[i].pending_balance = 1
           /\ beneficiaries[i].total_withdrawn = 0

\* C5 as claimed: for every amount, what is not credited, amount - sum of
\* share_amount_i, is less than the record count.  Stated for the ledgers
\* that have records, the only ones a payment is distributed over.
C5_RemainderBelowCount ==
    beneficiaries # << >> =>
        \A amount \in DistributionAmounts :
            amount - Credited(beneficiaries, amount) < Len(beneficiaries)

\* C5 as amended: on a ledger that has records, for every amount whose
\* products amount * share_percentage do not exceed the maximum balance, the
\* floor-division loss amount * total_shares / 100 - sum of share_amount_i is
\* less than the record count; so amount - sum of share_amount_i is less than
\* the record count when total_shares is 100.
C5_RoundingLossBelowCount ==
    beneficiaries # << >> =>
        \A amount \in DistributionAmounts :
            (\A i \in DOMAIN beneficiaries :
                 amount * beneficiaries[i].share_percentage <= BalanceMax) =>
                /\ amount * SumShares(beneficiaries)
                       - 100 * Credited(beneficiaries, amount)
                     < 100 * Len(beneficiaries)
                /\ Credited(beneficiaries, amount) * 100
                     <= amount * SumShares(beneficiaries)
                /\ SumShares(beneficiaries) = 100 =>
                       amount - Credited(beneficiaries, amount) < Len(beneficiaries)

\* A payment of 3 has just been distributed over a ledger of two records
\* whose shares sum to 100, and one unit of it was credited to nobody.
C5_Witness ==
    /\ op = "receive_payment"
    /\ total_distributed = 3
    /\ Len(beneficiaries) = 2
    /\ SumShares(beneficiaries) = 100
    /\ 3 - Credited(beneficiaries, 3) = 1
    /\ SumPending(beneficiaries) = 2

\* C6: an add_beneficiary that does not return Ok changes nothing.  On an
\* unpaused contract, called by the owner or a manager: a zero account, or an
\* account already in the ledger, with an acceptable share returns
\* InvalidBeneficiary; a share of 0, or one taking the total over 100, with an
\* acceptable account returns InvalidShare; when both the account and the
\* share are unacceptable one of the two errors is returned (the zero-account
\* check comes first, then the share check, then the duplicate check).
C6_RejectedAddChangesNothing ==
    [][op' = "add_beneficiary" =>
        /\ result' # "Ok" => NoEffect
        /\ \A c \in Callers, account \in Accounts, share \in ShareInputs :
            add_beneficiary(c, account, share) =>
                LET admitted ==
                        ~paused /\ (c = owner \/ (c \in DOMAIN managers /\ managers[c]))
                    zero == account = ZeroAccount
                    duplicate == \E i \in DOMAIN beneficiaries :
                                     beneficiaries[i].account = account
                    bad_account == zero \/ duplicate
                    bad_share == share = 0 \/ SumShares(beneficiaries) + share > 100
                IN IF ~admitted THEN result' # "Ok"
                   ELSE /\ (bad_account /\ ~bad_share) => result' = "InvalidBeneficiary"
                        /\ (bad_share /\ ~bad_account) => result' = "InvalidShare"
                        /\ (bad_account /\ bad_share) =>
                               result' = IF zero THEN "InvalidBeneficiary"
                                         ELSE "InvalidShare"
                        /\ (~bad_account /\ ~bad_share) => result' = "Ok"
    ]_vars

\* Scenario A: a share that would take a total of 50 over 100 was refused, and
\* the ledger still holds its one record of 50.
C6_Witness ==
    /\ op = "add_beneficiary"
    /\ result = "InvalidShare"
    /\ Len(beneficiaries) = 1
    /\ total_shares = 50
    /\ ~paused

\* C7: add_manager, remove_manager, pause, unpause and transfer_ownership
\* return Unauthorized and change nothing for every caller other than the
\* owner, a manager included; called by the owner each returns Ok and takes
\* effect, so after the owner's add_manager(X) is_manager(X) is true.
C7_AdminOnlyOwner ==
    [][op' \in {"add_manager", "remove_manager", "pause", "unpause", "transfer_ownership"} =>
        \A c \in Callers :
            LET Refused == result' = "Unauthorized" /\ NoEffect
            IN /\ \A m \in ManagerInputs :
                      (op' = "add_manager" /\ add_manager(c, m)) =>
                          IF c = owner
                          THEN /\ result' = "Ok"
                               /\ m \in DOMAIN managers' /\ managers'[m] = TRUE
                          ELSE Refused
               /\ \A m \in ManagerInputs :
                      (op' = "remove_manager" /\ remove_manager(c, m)) =>
                          IF c = owner
                          THEN result' = "Ok" /\ m \notin DOMAIN managers'
                          ELSE Refused
               /\ (op' = "pause" /\ pause(c)) =>
                      IF c = owner THEN result' = "Ok" /\ paused' ELSE Refused
               /\ (op' = "unpause" /\ unpause(c)) =>
                      IF c = owner THEN result' = "Ok" /\ ~paused' ELSE Refused
               /\ \A n \in OwnerInputs :
                      (op' = "transfer_ownership" /\ transfer_ownership(c, n)) =>
                          IF c = owner THEN result' = "Ok" /\ owner' = n ELSE Refused
    ]_vars

\* pause was refused while every account other than the owner is a manager
\* made by the owner's add_manager: the refused caller was a manager.
C7_Witness ==
    /\ op = "pause"
    /\ result = "Unauthorized"
    /\ scope = "roles"
    /\ \A c \in Callers : c # owner => is_manager(c)

\* C8: no stored approval record has amount 0.
C8_NoZeroApproval == \A key \in DOMAIN approvals : approvals[key].amount # 0

\* C9: get_approval(owner, spender) is 0 when the approval is absent or its
\* expires_at is earlier than the current time, and otherwise the stored
\* remaining amount.
C9_GetApprovalFiltersExpired ==
    \A o \in Accounts, spender \in Accounts :
        LET key == <<o, spender>>
            lapsed == /\ key \in DOMAIN approvals
                      /\ approvals[key].expires_at # NoExpiry
                      /\ approvals[key].expires_at[1] < now
        IN get_approval(o, spender) =
               IF key \notin DOMAIN approvals \/ lapsed THEN 0
               ELSE approvals[key].amount

\* C10: a withdraw_from against a stored approval whose expires_at is earlier
\* than the current time returns InsufficientAllowance whatever the amount
\* (ContractPaused on a paused contract, whose gate answers first) and changes
\* nothing, so the record stays stored and no balance moves; against an
\* approval with no expiry, or one whose expires_at is not earlier than the
\* current time, an unpaused contract returns InsufficientAllowance only when
\* the amount exceeds the stored allowance.
C10_LazyExpiry ==
    [][op' = "withdraw_from" =>
        \A c \in Callers, b \in Accounts, amount \in WithdrawInputs :
            (<<b, c>> \in DOMAIN approvals /\ withdraw_from(c, b, amount)) =>
                LET approval == approvals[<<b, c>>]
                    lapsed == /\ approval.expires_at # NoExpiry
                              /\ approval.expires_at[1] < now
                IN /\ lapsed =>
                        /\ result' = IF paused THEN "ContractPaused"
                                     ELSE "InsufficientAllowance"
                        /\ NoEffect
                        /\ approvals'[<<b, c>>] = approval
                   /\ (~lapsed /\ ~paused /\ amount <= approval.amount) =>
                          result' # "InsufficientAllowance"
                   /\ (~lapsed /\ ~paused /\ amount > approval.amount) =>
                          result' = "InsufficientAllowance"
    ]_vars

\* A withdraw_from was refused for allowance while the only stored approval
\* has lapsed, covers an amount of 2, and its beneficiary holds at least 2.
C10_Witness ==
    /\ op = "withdraw_from"
    /\ result = "InsufficientAllowance"
    /\ ~paused
    /\ \E key \in DOMAIN approvals :
           /\ DOMAIN approvals = {key}
           /\ approvals[key].amount = 2
           /\ approvals[key].expires_at # NoExpiry
           /\ approvals[key].expires_at[1] < now
           /\ \E i \in DOMAIN beneficiaries :
                  /\ beneficiaries[i].account = key[1]
                  /\ beneficiaries[i].pending_balance >= 2

\* C11: a withdraw_from(beneficiary, amount) that returns Ok lowers the named
\* beneficiary's pending_balance by amount, raises its total_withdrawn by
\* amount, and has requested (and been granted) a transfer of exactly amount to
\* the caller; every other beneficiary record, every approval under another
\* key and the rest of the storage are unchanged.
C11_DelegatedWithdrawalEffect ==
    [][(op' = "withdraw_from" /\ result' = "Ok") =>
        \A c \in Callers, b \in Accounts, amount \in WithdrawInputs :
            withdraw_from(c, b, amount) =>
                /\ Len(beneficiaries') = Len(beneficiaries)
                /\ \E i \in DOMAIN beneficiaries :
                       /\ beneficiaries[i].account = b
                       /\ beneficiaries'[i] =
                              [account |-> b,
                               share_percentage |-> beneficiaries[i].share_percentage,
                               pending_balance |-> beneficiaries[i].pending_balance - amount,
                               total_withdrawn |-> beneficiaries[i].total_withdrawn + amount]
                       /\ \A j \in DOMAIN beneficiaries \ {i} :
                              beneficiaries'[j] = beneficiaries[j]
                /\ transfer' = <<[to |-> c, amount |-> amount, ok |-> TRUE]>>
                /\ balance' = balance - amount
                /\ DOMAIN approvals' \subseteq DOMAIN approvals
                /\ \A key \in DOMAIN approvals \ {<<b, c>>} :
                       key \in DOMAIN approvals' /\ approvals'[key] = approvals[key]
                /\ UNCHANGED <<owner, managers, total_shares, allowances, paused,
                               total_received, total_distributed>>
    ]_vars

\* Spender 2 has just been paid 1 out of beneficiary 1's balance, under an
\* allowance of 2 of which 1 remains, while its allowance of 2 from beneficiary
\* 2 and beneficiary 2's record are as they were.
C11_Witness ==
    /\ op = "withdraw_from"
    /\ result = "Ok"
    /\ transfer = <<[to |-> 2, amount |-> 1, ok |-> TRUE]>>
    /\ DOMAIN approvals = {<<1, 2>>, <<2, 2>>}
    /\ approvals[<<1, 2>>].amount = 1
    /\ approvals[<<2, 2>>].amount = 2
    /\ \E i, j \in DOMAIN beneficiaries :
           /\ beneficiaries[i].account = 1
           /\ beneficiaries[i].pending_balance = 0
           /\ beneficiaries[i].total_withdrawn = 1
           /\ beneficiaries[j].account = 2
           /\ beneficiaries[j].pending_balance = 1
           /\ beneficiaries[j].total_withdrawn = 0

\* C12: withdraw(amount) by a caller with no record in the ledger returns
\* Unauthorized, and by a beneficiary whose pending_balance is below amount
\* returns InsufficientBalance, both changing nothing (a paused contract
\* answers ContractPaused first).  Otherwise the caller's pending_balance drops
\* by amount, its total_withdrawn rises by amount, a transfer of amount to the
\* caller is requested, and every other record, all approvals and the rest of
\* the storage are unchanged; so pending_balance + total_withdrawn of a record
\* is what was credited to it, and no more than that is ever withdrawn.
C12_SelfWithdrawal ==
    [][op' = "withdraw" =>
        \A c \in Callers, amount \in WithdrawInputs :
            withdraw(c, amount) =>
                LET listed == \E i \in DOMAIN beneficiaries : beneficiaries[i].account = c
                    i == CHOOSE k \in DOMAIN beneficiaries : beneficiaries[k].account = c
                IN IF paused THEN result' = "ContractPaused" /\ NoEffect
                   ELSE IF ~listed THEN result' = "Unauthorized" /\ NoEffect
                   ELSE IF beneficiaries[i].pending_balance < amount
                        THEN result' = "InsufficientBalance" /\ NoEffect
                   ELSE /\ Len(beneficiaries') = Len(beneficiaries)
                        /\ beneficiaries'[i] =
                               [account |-> c,
                                share_percentage |-> beneficiaries[i].share_percentage,
                                pending_balance |-> beneficiaries[i].pending_balance - amount,
                                total_withdrawn |-> beneficiaries[i].total_withdrawn + amount]
                        /\ \A j \in DOMAIN beneficiaries \ {i} :
                               beneficiaries'[j] = beneficiaries[j]
                        /\ \E ok \in BOOLEAN :
                               /\ transfer' = <<[to |-> c, amount |-> amount, ok |-> ok]>>
                               /\ result' = IF ok THEN "Ok" ELSE "TransferFailed"
                        /\ UNCHANGED <<owner, managers, total_shares, approvals, allowances,
                                       paused, total_received, total_distributed>>
    ]_vars

\* A beneficiary credited 1 asked for 2 and was refused: its record still
\* shows the 1 pending and nothing withdrawn.
C12_Witness ==
    /\ op = "withdraw"
    /\ result = "InsufficientBalance"
    /\ transfer = NoTransfer
    /\ \E i \in DOMAIN beneficiaries :
           /\ beneficiaries[i].pending_balance = 1
           /\ beneficiaries[i].total_withdrawn = 0
    /\ \A i \in DOMAIN beneficiaries : beneficiaries[i].pending_balance < 2

\* C13: approve(spender, amount, expires_at) by a caller with no record in
\* the ledger returns Unauthorized and stores nothing (a paused contract
\* answers ContractPaused first).  By a beneficiary it returns Ok and leaves
\* under (caller, spender) exactly the record of this call, whatever was stored
\* there before: the amount and expiry are those of the last approve, not a
\* sum, get_approval(caller, spender) is that amount, and the approvals under
\* every other key and the rest of the state are unchanged.  Stated per
\* caller c: no step is a call by c unless its outcome is the one expected of c.
C13_ApproveOverwrites ==
    [][op' = "approve" =>
        \A c \in Callers :
            LET listed == \E i \in DOMAIN beneficiaries : beneficiaries[i].account = c
                outcome == IF paused THEN result' = "ContractPaused" /\ NoEffect
                           ELSE IF ~listed THEN result' = "Unauthorized" /\ NoEffect
                           ELSE result' = "Ok"
            IN \A spender \in SpenderInputs, amount \in ApproveInputs, e \in ExpiryInputs :
                   LET key == <<c, spender>>
                   IN IF ~outcome THEN ~approve(c, spender, amount, e)
                      ELSE (result' = "Ok" /\ approve(c, spender, amount, e)) =>
                               /\ DOMAIN approvals' = DOMAIN approvals \cup {key}
                               /\ approvals'[key] = [spender |-> spender, amount |-> amount,
                                                     expires_at |-> e]
                               /\ \A other \in DOMAIN approvals \ {key} :
                                      approvals'[other] = approvals[other]
                               /\ get_approval(c, spender)' = amount
                               /\ transfer' = NoTransfer
                               /\ UNCHANGED <<owner, managers, beneficiaries, total_shares,
                                              allowances, paused, total_received,
                                              total_distributed, balance>>
    ]_vars

\* Beneficiary 2 has just granted spender 2 an allowance of 2 while spender 2
\* holds beneficiary 1's allowance partly used: one record was written, the
\* other kept.
C13_Witness ==
    /\ op = "approve"
    /\ result = "Ok"
    /\ DOMAIN approvals = {<<1, 2>>, <<2, 2>>}
    /\ approvals[<<1, 2>>] = [spender |-> 2, amount |-> 1, expires_at |-> NoExpiry]
    /\ approvals[<<2, 2>>] = [spender |-> 2, amount |-> 2, expires_at |-> NoExpiry]
    /\ get_approval(2, 2) = 2

\* C14: revoke_approval(spender) returns Ok for every caller, with or without
\* a record under (caller, spender); afterwards no record is stored under that
\* key, so get_approval(caller, spender) is 0, and the approvals under every
\* other key, the ledger, the balance and the rest of the state are unchanged
\* (revoking twice is revoking once).  While no record is stored under
\* (beneficiary, spender), every withdraw_from(beneficiary, amount) by the
\* spender returns InsufficientAllowance (ContractPaused on a paused contract)
\* and changes nothing, and a record comes to be stored under a key only by an
\* approve of the key's first account naming the key's second.
C14_RevokeIsUnconditional ==
    [][/\ op' = "revoke_approval" =>
            \A c \in Callers, spender \in SpenderInputs :
                revoke_approval(c, spender) =>
                    /\ result' = "Ok"
                    /\ DOMAIN approvals' = DOMAIN approvals \ {<<c, spender>>}
                    /\ \A other \in DOMAIN approvals' : approvals'[other] = approvals[other]
                    /\ get_approval(c, spender)' = 0
                    /\ transfer' = NoTransfer
                    /\ UNCHANGED <<owner, managers, beneficiaries, total_shares, allowances,
                                   paused, total_received, total_distributed, balance>>
       /\ op' = "withdraw_from" =>
            LET refused == /\ result' = IF paused THEN "ContractPaused"
                                        ELSE "InsufficientAllowance"
                           /\ NoEffect
            IN refused \/
                   \A c \in Callers, b \in Accounts, amount \in WithdrawInputs :
                       <<b, c>> \notin DOMAIN approvals => ~withdraw_from(c, b, amount)
       /\ \A key \in DOMAIN approvals' \ DOMAIN approvals :
              /\ op' = "approve"
              /\ \E amount \in ApproveInputs, e \in ExpiryInputs :
                     approve(key[1], key[2], amount, e)
    ]_vars

\* Beneficiary 2's revocation for spender 2 has returned Ok: nothing is stored
\* under (2, 2), and beneficiary 1's partly used allowance to the same spender
\* and both ledger records are as they were.
C14_Witness ==
    /\ op = "revoke_approval"
    /\ result = "Ok"
    /\ get_approval(2, 2) = 0
    /\ DOMAIN approvals = {<<1, 2>>}
    /\ approvals[<<1, 2>>] = [spender |-> 2, amount |-> 1, expires_at |-> NoExpiry]
    /\ Len(beneficiaries) = 2
    /\ balance = 2

\* C15: remove_beneficiary(account), called on an unpaused contract by the
\* owner or a manager, returns BeneficiaryNotFound and changes nothing when
\* the account has no record.  When it has one, exactly that record leaves the
\* ledger, the other records keep their content and relative order,
\* total_shares drops by the record's share_percentage, and a transfer of the
\* record's whole pending_balance to the account is requested when that
\* balance is positive and none when it is zero; approvals and the rest of the
\* storage are unchanged.
C15_RemoveBeneficiary ==
    [][op' = "remove_beneficiary" =>
        \A c \in Callers, account \in Accounts :
            remove_beneficiary(c, account) =>
                LET admitted == c = owner \/ (c \in DOMAIN managers /\ managers[c])
                    listed == \E k \in DOMAIN beneficiaries :
                                  beneficiaries[k].account = account
                    i == CHOOSE k \in DOMAIN beneficiaries :
                             beneficiaries[k].account = account
                    Other(r) == r.account # account
                    pending == beneficiaries[i].pending_balance
                IN IF paused THEN result' = "ContractPaused" /\ NoEffect
                   ELSE IF ~admitted THEN result' = "Unauthorized" /\ NoEffect
                   ELSE IF ~listed THEN result' = "BeneficiaryNotFound" /\ NoEffect
                   ELSE /\ beneficiaries' = SelectSeq(beneficiaries, Other)
                        /\ Len(beneficiaries') = Len(beneficiaries) - 1
                        /\ total_shares' = total_shares - beneficiaries[i].share_percentage
                        /\ IF pending > 0
                           THEN \E ok \in BOOLEAN :
                                    /\ transfer' = <<[to |-> account, amount |-> pending,
                                                      ok |-> ok]>>
                                    /\ result' = IF ok THEN "Ok" ELSE "TransferFailed"
                                    /\ balance' = IF ok THEN balance - pending ELSE balance
                           ELSE /\ transfer' = NoTransfer
                                /\ result' = "Ok"
                                /\ balance' = balance
                        /\ UNCHANGED <<owner, managers, approvals, allowances, paused,
                                       total_received, total_distributed>>
    ]_vars

\* A beneficiary holding 1 has just been removed and paid its 1: the other
\* record, with its own 1 pending, is the whole ledger, and total_shares is
\* its 50.
C15_Witness ==
    /\ op = "remove_beneficiary"
    /\ result = "Ok"
    /\ transfer # NoTransfer
    /\ transfer[1].amount = 1
    /\ transfer[1].ok
    /\ Len(beneficiaries) = 1
    /\ beneficiaries[1].account # transfer[1].to
    /\ beneficiaries[1].pending_balance = 1
    /\ total_shares = 50
    /\ balance = 2

\* C16: on an unpaused contract add_beneficiary and remove_beneficiary return
\* Unauthorized, changing nothing, to every caller that is neither the current
\* owner nor an account whose manager flag is set at the time of the call, and
\* never return Unauthorized to the owner (listed as a manager or not) or to an
\* account whose flag is set; the flag of X is set by the owner's successful
\* add_manager(X) and cleared by the owner's successful remove_manager(X).
\* Stated per caller c: no step is a call by c unless its outcome is the one
\* expected of c.
C16_LedgerManagementGate ==
    [][/\ (op' \in {"add_beneficiary", "remove_beneficiary"} /\ ~paused) =>
            \A c \in Callers :
                LET flagged == c \in DOMAIN managers /\ managers[c] = TRUE
                    expected == IF c = owner \/ flagged
                                THEN result' # "Unauthorized"
                                ELSE result' = "Unauthorized" /\ NoEffect
                IN ~expected =>
                       /\ op' = "add_beneficiary" =>
                              \A account \in Accounts, share \in ShareInputs :
                                  ~add_beneficiary(c, account, share)
                       /\ op' = "remove_beneficiary" =>
                              \A account \in Accounts : ~remove_beneficiary(c, account)
       /\ (op' = "add_manager" /\ result' = "Ok") =>
            \A c \in Callers, m \in ManagerInputs :
                add_manager(c, m) => is_manager(m)'
       /\ (op' = "remove_manager" /\ result' = "Ok") =>
            \A c \in Callers, m \in ManagerInputs :
                remove_manager(c, m) => ~is_manager(m)'
    ]_vars

\* remove_beneficiary was refused as Unauthorized on an unpaused contract where
\* one account other than the owner is a manager, another is not, and the
\* owner itself is not listed as a manager.
C16_Witness ==
    /\ op = "remove_beneficiary"
    /\ result = "Unauthorized"
    /\ ~paused
    /\ ~is_manager(owner)
    /\ \E m \in Callers : m # owner /\ is_manager(m)
    /\ \E x \in Callers : x # owner /\ ~is_manager(x)

\* C17: from a paused state the owner's unpause returns Ok, clears the pause
\* flag and changes nothing else, so whatever stood in the way of a gated
\* message besides the pause is as it was; on an unpaused contract no message
\* returns ContractPaused, and right after a successful unpause the owner's
\* add_beneficiary with a non-zero unlisted account and a share that fits
\* returns Ok; while the contract is paused the owner's add_manager,
\* remove_manager, pause, unpause and transfer_ownership all return Ok, and
\* pause leaves it paused.
C17_UnpauseRestores ==
    [][/\ (op' = "unpause" /\ paused) =>
            \A c \in Callers :
                (c = owner /\ unpause(c)) =>
                    /\ result' = "Ok"
                    /\ ~paused'
                    /\ transfer' = NoTransfer
                    /\ UNCHANGED <<owner, managers, beneficiaries, total_shares, approvals,
                                   allowances, total_received, total_distributed,
                                   now, balance>>
       /\ ~paused => result' # "ContractPaused"
       /\ (op = "unpause" /\ result = "Ok" /\ op' = "add_beneficiary") =>
            \A account \in Accounts, share \in ShareInputs :
                (/\ account # ZeroAccount
                 /\ \A i \in DOMAIN beneficiaries : beneficiaries[i].account # account
                 /\ share > 0
                 /\ SumShares(beneficiaries) + share <= 100
                 /\ add_beneficiary(owner, account, share)) =>
                    /\ result' = "Ok"
                    /\ Len(beneficiaries') = Len(beneficiaries) + 1
       /\ (paused /\ op' \in {"add_manager", "remove_manager", "pause", "unpause",
                              "transfer_ownership"}) =>
            /\ \A m \in ManagerInputs :
                   (add_manager(owner, m) \/ remove_manager(owner, m)) => result' = "Ok"
            /\ pause(owner) => (result' = "Ok" /\ paused')
            /\ unpause(owner) => result' = "Ok"
            /\ \A n \in OwnerInputs : transfer_ownership(owner, n) => result' = "Ok"
    ]_vars

\* The owner's unpause has just returned Ok on a contract that holds a ledger
\* record: the contract is not paused.
C17_Witness ==
    /\ op = "unpause"
    /\ result = "Ok"
    /\ ~paused
    /\ beneficiaries # << >>
    /\ scope = "ledger"

\* C18: a message whose requested transfer fails returns TransferFailed, and
\* only withdraw, withdraw_from and remove_beneficiary do; the pooled balance
\* is then what it was, while the bookkeeping done before the transfer stays:
\* for withdraw and withdraw_from the record's pending_balance is lower and its
\* total_withdrawn higher by the amount, for withdraw_from the allowance is
\* lower by the amount as well (the approval gone if nothing remains), and for
\* remove_beneficiary the record is out of the ledger and total_shares lower
\* by its share.
C18_FailedTransferKeepsBookkeeping ==
    [][/\ (transfer' # NoTransfer /\ ~transfer'[1].ok) => result' = "TransferFailed"
       /\ (result' = "TransferFailed" /\ now' = now) =>
            LET Debited(account, amount) ==
                    /\ Len(beneficiaries') = Len(beneficiaries)
                    /\ \E i \in DOMAIN beneficiaries :
                           /\ beneficiaries[i].account = account
                           /\ beneficiaries'[i].pending_balance =
                                  beneficiaries[i].pending_balance - amount
                           /\ beneficiaries'[i].total_withdrawn =
                                  beneficiaries[i].total_withdrawn + amount
            IN /\ op' \in {"withdraw", "withdraw_from", "remove_beneficiary"}
               /\ transfer' # NoTransfer
               /\ ~transfer'[1].ok
               /\ balance' = balance
               /\ op' = "withdraw" =>
                      \A c \in Callers, amount \in WithdrawInputs :
                          withdraw(c, amount) => Debited(c, amount)
               /\ op' = "withdraw_from" =>
                      \A c \in Callers, b \in Accounts, amount \in WithdrawInputs :
                          withdraw_from(c, b, amount) =>
                              /\ Debited(b, amount)
                              /\ IF approvals[<<b, c>>].amount - amount > 0
                                 THEN /\ <<b, c>> \in DOMAIN approvals'
                                      /\ approvals'[<<b, c>>].amount =
                                             approvals[<<b, c>>].amount - amount
                                 ELSE <<b, c>> \notin DOMAIN approvals'
               /\ op' = "remove_beneficiary" =>
                      \A c \in Callers, account \in Accounts :
                          remove_beneficiary(c, account) =>
                              /\ Len(beneficiaries') = Len(beneficiaries) - 1
                              /\ \A i \in DOMAIN beneficiaries' :
                                     beneficiaries'[i].account # account
                              /\ \E i \in DOMAIN beneficiaries :
                                     /\ beneficiaries[i].account = account
                                     /\ total_shares' =
                                            total_shares - beneficiaries[i].share_percentage
    ]_vars

\* A withdraw_from of 1 has just returned TransferFailed: the whole payment
\* of 3 is still in the contract, yet a record shows 1 withdrawn and the
\* allowance of 2 is down to 1.
C18_Witness ==
    /\ op = "withdraw_from"
    /\ result = "TransferFailed"
    /\ balance = 3
    /\ transfer # NoTransfer
    /\ transfer[1].amount = 1
    /\ ~transfer[1].ok
    /\ \E key \in DOMAIN approvals :
           /\ approvals[key].amount = 1
           /\ \E i \in DOMAIN beneficiaries :
                  /\ beneficiaries[i].account = key[1]
                  /\ beneficiaries[i].total_withdrawn = 1
    /\ SumPending(beneficiaries) < balance

\* C19: receive_payment on an unpaused contract always returns Ok; a
\* successful receive_payment(amount) adds amount, saturating, to
\* total_received, adds amount, saturating, to total_distributed exactly when
\* the ledger is non-empty, and with an empty ledger leaves total_distributed
\* and the ledger as they were; no other message changes either total.  So
\* neither total ever decreases, and total_distributed is at most
\* total_received in every reachable state.
C19_ReportingTotals ==
    [][/\ total_distributed <= total_received
       /\ total_distributed' <= total_received'
       /\ total_received' >= total_received
       /\ total_distributed' >= total_distributed
       /\ op' # "receive_payment" => UNCHANGED <<total_received, total_distributed>>
       /\ (op' = "receive_payment" /\ now' = now) =>
            \A c \in Callers, amount \in PaymentInputs :
                receive_payment(c, amount) =>
                    IF paused THEN result' = "ContractPaused" /\ NoEffect
                    ELSE /\ result' = "Ok"
                         /\ total_received' = Min(total_received + amount, BalanceMax)
                         /\ IF beneficiaries # << >>
                            THEN total_distributed' =
                                     Min(total_distributed + amount, BalanceMax)
                            ELSE /\ total_distributed' = total_distributed
                                 /\ beneficiaries' = beneficiaries
    ]_vars

\* A payment of 200 absorbed by an empty ledger and a second one distributed:
\* total_received has saturated, total_distributed is the second payment.
C19_Witness ==
    /\ op = "receive_payment"
    /\ result = "Ok"
    /\ total_received = BalanceMax
    /\ total_distributed = 200
    /\ beneficiaries # << >>

\* C20: solvency.  With the pooled balance changed only by the value attached
\* to successful receive_payment calls and by the transfers the contract
\* requests, in every reachable state the pending_balance values of the ledger
\* sum to at most the pooled balance, so each of them can be paid in full.
C20_Solvency ==
    /\ SumPending(beneficiaries) <= balance
    /\ \A i \in DOMAIN beneficiaries : beneficiaries[i].pending_balance <= balance

\* After a payment of 3 split over two records and a paid self-withdrawal of
\* 1, the contract holds 2 and owes 1.
C20_Witness ==
    /\ op = "withdraw"
    /\ result = "Ok"
    /\ Len(beneficiaries) = 2
    /\ total_received = 3
    /\ balance = 2
    /\ SumPending(beneficiaries) = 1

(***************************************************************************)
(* C21: removing a beneficiary ends the delegated rights it granted.  Once *)
(* a beneficiary has been removed, no withdraw_from against it by a spender *)
(* it had approved before the removal succeeds, neither while it is off    *)
(* the ledger nor after it has been added again and credited, until the    *)
(* beneficiary itself has called approve for that spender again.           *)
(***************************************************************************)
C21_RemovalEndsDelegatedRights ==
    [][op' = "withdraw_from" =>
         \A c \in Callers, b \in Accounts, amount \in WithdrawInputs :
             (<<b, c>> \in outlived /\ withdraw_from(c, b, amount))
                 => result' # "Ok"]_vars

(***************************************************************************)
(* C22: there is one owner, and it changes only in a transfer_ownership    *)
(* step called by the current owner that returns Ok.  The owner's          *)
(* transfer_ownership(N) returns Ok, after it get_owner is N, and manager  *)
(* flags, the pause flag, the ledger, the approvals, the totals and the    *)
(* pooled balance are what they were; anybody else's returns Unauthorized  *)
(* and changes nothing.  In every state, the former owner's included, an   *)
(* admin call (add_manager, remove_manager, pause, unpause,                *)
(* transfer_ownership) returns Ok exactly when its caller is get_owner and *)
(* Unauthorized otherwise, so a former owner is refused until ownership is *)
(* transferred back to it.                                                 *)
(***************************************************************************)
C22_SingleOwnerHandOver ==
    [][/\ get_owner' # get_owner =>
            /\ op' = "transfer_ownership"
            /\ result' = "Ok"
            /\ transfer_ownership(get_owner, get_owner')
       /\ op' = "transfer_ownership" =>
            \A c \in Callers, n \in OwnerInputs :
                transfer_ownership(c, n) =>
                    IF c = get_owner
                    THEN /\ result' = "Ok"
                         /\ get_owner' = n
                         /\ transfer' = NoTransfer
                         /\ UNCHANGED <<managers, paused, beneficiaries, total_shares,
                                        approvals, allowances, total_received,
                                        total_distributed, balance>>
                    ELSE result' = "Unauthorized" /\ NoEffect
       /\ op' \in {"add_manager", "remove_manager", "pause", "unpause"} =>
            \A c \in Callers :
                LET called ==
                        \/ \E m \in ManagerInputs : add_manager(c, m) \/ remove_manager(c, m)
                        \/ pause(c)
                        \/ unpause(c)
                IN called => result' = (IF c = get_owner THEN "Ok" ELSE "Unauthorized")
    ]_vars

\* transfer_ownership has just handed the contract, paused and holding a
\* credited ledger record and an approval, to an account other than the
\* deployer.
C22_Witness ==
    /\ op = "transfer_ownership"
    /\ result = "Ok"
    /\ get_owner \notin Deployers
    /\ paused
    /\ approvals # EmptyMap
    /\ \E i \in 1..Len(beneficiaries) : beneficiaries[i].pending_balance > 0

====
